---- MODULE Spec2Model ----
(***************************************************************************)
(* Model of the timewheel scheduling engine: the per-schedule state        *)
(* machine of timewheel/schedule.py (Schedule.run, Schedule.finish,        *)
(* ScheduleTable.should_run) and the driver of timewheel/wheel.py          *)
(* (TimeWheel.run, TimeWheel.kill_jobs).                                   *)
(*                                                                         *)
(* Everything runs on one asyncio event loop, so a coroutine's code        *)
(* between two awaits is one atomic step.  Every action below is one such  *)
(* stretch of code.  The clock is wall-clock time in seconds since Monday  *)
(* 2024-01-01 00:00:00 UTC.                                                *)
(***************************************************************************)
EXTENDS Integers, Sequences, FiniteSets

\* ------------------------------------------------------------------------
\* Bounds of the model
\* ------------------------------------------------------------------------

\* Seconds the wall clock advances in one Tick step.
TickSeconds == 30

\* Number of Tick steps of a behaviour.
MaxTicks == 3

\* Iterations of TimeWheel.run's loop one WheelWake step covers at most.
SleepsPerStep == 30

\* Number of direct Schedule.run() invocations the host makes.
MaxRuns == 3

\* Number of sample instants, after the first, should_run is called on.
MaxSamples == 10

\* Comma-separated tokens of a field of a generated expression, at most.
MaxTokens == 2

\* Fields of a generated expression, at most.
MaxFieldCount == 6

\* asyncio.sleep calls of TimeWheel.run that are followed one by one.
MaxSleeps == 61

\* ------------------------------------------------------------------------
\* Program constants
\* ------------------------------------------------------------------------

\* wheel.py:11
SLEEP_TIME == 1

\* schedule.py:80, `async def run(self)`: positional parameters after self
RunPositionalParams == 0

\* wheel.py:43, `schedule.run(now)`: positional arguments the driver passes
DispatchArgs == 1

\* ------------------------------------------------------------------------
\* Configuration: the schedules the host constructs (Schedule.__init__)
\* ------------------------------------------------------------------------

\* TimeWheel.schedules, in collection order.
Schedules == <<1, 2>>

S == {Schedules[i] : i \in 1..Len(Schedules)}

\* A field of a ScheduleTable: True (the wildcard) or a list of integers.
AnyValue == [any |-> TRUE, vals |-> {}]

List(vs) == [any |-> FALSE, vals |-> vs]

\* schedule 1: '* * * * *'; schedule 2: '*/2 * * * *'
schedule_table(s) ==
    IF s = 1
    THEN [minutes |-> AnyValue, hours |-> AnyValue, days |-> AnyValue,
          months |-> AnyValue, weekdays |-> AnyValue]
    ELSE [minutes |-> List({v \in 0..59 : v % 2 = 0}), hours |-> AnyValue,
          days |-> AnyValue, months |-> AnyValue, weekdays |-> AnyValue]

\* UTC offset in seconds of the schedule's timezone:
\* schedule 1: 'UTC'; schedule 2: 'America/Sao_Paulo' (UTC-3).
timezone(s) == IF s = 1 THEN 0 ELSE 0 - 10800

\* Calendar date (days since 2024-01-01) of a local time in seconds.
Date(t) == t \div 86400

\* excluded_dates: schedule 1: None; schedule 2: [date(2024, 1, 2)].
\* None and the empty list behave alike in Schedule.run.
excluded_dates(s) == IF s = 1 THEN {} ELSE {1}

\* The wall-clock instants a behaviour may start at:
\* 2024-01-03 02:58:00 UTC and 02:59:00 UTC (23:58 and 23:59 of 2024-01-02
\* in America/Sao_Paulo).
StartClocks == {183480, 183540}

\* The earlier of them: where the calls that read no clock are made.
FirstStartClock == CHOOSE c \in StartClocks : \A d \in StartClocks : c <= d

\* ------------------------------------------------------------------------
\* State
\* ------------------------------------------------------------------------

VARIABLES
    clock,                 \* wall clock, seconds
    elapsed,               \* Tick steps taken
    running,               \* Schedule.running
    last_execution,        \* Schedule.last_execution: <<>> is None, <<t>> is t
    stop_signal_received,  \* Schedule.stop_signal_received
    pending,               \* Schedule.run coroutines created and not yet started
    inflight,              \* Schedule.run coroutines awaiting their job
    created,               \* Schedule.run invocations made by the host
    job_calls,             \* the job's call log: the current_time of each call
    last_return,           \* how the last Schedule.run that ended did end
    tw_running,            \* TimeWheel.running
    wheel_pc,              \* position of TimeWheel.run
    timer,                 \* TimeWheel.run's local timer
    kill_pc,               \* position of TimeWheel.kill_jobs
    kill_idx,              \* index in Schedules of the schedule being finished
    hfin,                  \* position of a Schedule.finish called by the host
    sleeps,                \* asyncio.sleep calls TimeWheel.run has completed
    passes,                \* the value of sleeps at each evaluation pass
    configured_interval,   \* check interval of the environment: <<>> is unset
    expression,            \* argument of create_schedules, a list of characters
    compiled,              \* what create_schedules returned or raised
    table_in,              \* ScheduleTable should_run is called on
    time_in,               \* argument of should_run, seconds of local time
    matched                \* what should_run returned: <<>> before the call

schedVars == <<running, last_execution, stop_signal_received, pending,
               inflight, created, job_calls, last_return>>

wheelVars == <<tw_running, wheel_pc, timer>>

killVars == <<kill_pc, kill_idx>>

\* History of TimeWheel.run and the configuration of its environment.
wheelLog == <<sleeps, passes, configured_interval>>

\* State of a call of create_schedules and of a call of should_run.
callVars == <<expression, compiled, table_in, time_in, matched>>

vars == <<clock, elapsed, schedVars, wheelVars, killVars, hfin, wheelLog,
          callVars>>

None == <<>>

\* ------------------------------------------------------------------------
\* ScheduleTable.should_run and the time it is given
\* ------------------------------------------------------------------------

Minute(t) == (t \div 60) % 60

Hour(t) == (t \div 3600) % 24

\* Days of 2024 before the first day of each month, and of the whole year.
MonthStart == <<0, 31, 60, 91, 121, 152, 182, 213, 244, 274, 305, 335, 366>>

\* The model stays within 2024.
Month(t) ==
    CHOOSE m \in 1..12 : MonthStart[m] <= Date(t) /\ Date(t) < MonthStart[m + 1]

\* Day of the month.
Day(t) == Date(t) - MonthStart[Month(t)] + 1

\* datetime.weekday(): Monday is 0; 2024-01-01 is a Monday.
Weekday(t) == Date(t) % 7

FieldMatches(field, v) == field.any \/ v \in field.vals

\* should_run without its last conjunct.
should_run_no_weekday(table, t) ==
    /\ FieldMatches(table.minutes, Minute(t))
    /\ FieldMatches(table.hours, Hour(t))
    /\ FieldMatches(table.days, Day(t))
    /\ FieldMatches(table.months, Month(t))

should_run(table, t) ==
    /\ FieldMatches(table.minutes, Minute(t))
    /\ FieldMatches(table.hours, Hour(t))
    /\ FieldMatches(table.days, Day(t))
    /\ FieldMatches(table.months, Month(t))
    /\ FieldMatches(table.weekdays, Weekday(t))

\* datetime.now(tz=self.timezone)
LocalNow(s) == clock + timezone(s)

\* .replace(second=0, microsecond=0)
TruncateToMinute(t) == (t \div 60) * 60

current_time(s) == TruncateToMinute(LocalNow(s))

\* ------------------------------------------------------------------------
\* Schedule.run
\* ------------------------------------------------------------------------

run_path_no_stop_check(s, now) ==
    IF should_run(schedule_table(s), now)
    THEN IF Date(now) \in excluded_dates(s)
         THEN "excluded"
         ELSE IF last_execution[s] = None \/ <<now>> # last_execution[s]
              THEN "fire"
              ELSE "same_minute"
    ELSE "no_match"

run_path_no_exclusion(s, now) ==
    IF stop_signal_received[s]
    THEN "stopped"
    ELSE IF should_run(schedule_table(s), now)
         THEN IF last_execution[s] = None \/ <<now>> # last_execution[s]
              THEN "fire"
              ELSE "same_minute"
         ELSE "no_match"

run_path_no_dedup(s, now) ==
    IF stop_signal_received[s]
    THEN "stopped"
    ELSE IF should_run(schedule_table(s), now)
         THEN IF Date(now) \in excluded_dates(s)
              THEN "excluded"
              ELSE "fire"
         ELSE "no_match"

\* The branch Schedule.run takes at time `now` (lines 95-106).
run_path(s, now) ==
    IF stop_signal_received[s]
    THEN "stopped"
    ELSE IF should_run(schedule_table(s), now)
         THEN IF Date(now) \in excluded_dates(s)
              THEN "excluded"
              ELSE IF last_execution[s] = None \/ <<now>> # last_execution[s]
                   THEN "fire"
                   ELSE "same_minute"
         ELSE "no_match"

\* The host calls schedule.run() (as the tests do): a coroutine is created;
\* it starts when the event loop first steps it.
HostCallRun(s) ==
    /\ created < MaxRuns
    /\ created' = created + 1
    /\ pending' = [pending EXCEPT ![s] = @ + 1]
    /\ UNCHANGED <<clock, elapsed, running, last_execution,
                   stop_signal_received, inflight, job_calls, last_return,
                   wheelVars, killVars, hfin>>

\* A Schedule.run that records the current minute in last_execution on every
\* path, the returns of the guards included.
RunEnter_records_always(s) ==
    /\ pending[s] > 0
    /\ pending' = [pending EXCEPT ![s] = @ - 1]
    /\ LET now == current_time(s)
           path == run_path(s, now)
       IN /\ last_execution' = [last_execution EXCEPT ![s] = <<now>>]
          /\ IF path = "fire"
             THEN /\ running' = [running EXCEPT ![s] = TRUE]
                  /\ inflight' = [inflight EXCEPT ![s] = @ + 1]
                  /\ job_calls' = [job_calls EXCEPT ![s] = Append(@, now)]
                  /\ UNCHANGED last_return
             ELSE /\ last_return' = [last_return EXCEPT ![s] = path]
                  /\ UNCHANGED <<running, inflight, job_calls>>
    /\ UNCHANGED <<clock, elapsed, stop_signal_received, created,
                   wheelVars, killVars, hfin>>

\* Schedule.run from its first line to its return or to the await of the job.
RunEnter(s) ==
    /\ pending[s] > 0
    /\ pending' = [pending EXCEPT ![s] = @ - 1]
    /\ LET now == current_time(s)
           path == run_path(s, now)
       IN IF path = "fire"
          THEN /\ last_execution' = [last_execution EXCEPT ![s] = <<now>>]
               /\ running' = [running EXCEPT ![s] = TRUE]
               /\ inflight' = [inflight EXCEPT ![s] = @ + 1]
               /\ job_calls' = [job_calls EXCEPT ![s] = Append(@, now)]
               /\ UNCHANGED last_return
          ELSE /\ last_return' = [last_return EXCEPT ![s] = path]
               /\ UNCHANGED <<last_execution, running, inflight, job_calls>>
    /\ UNCHANGED <<clock, elapsed, stop_signal_received, created,
                   wheelVars, killVars, hfin>>

\* What the job does: returns None, returns a value, or raises.
JobOutcomes == {"none", "value", "raises"}

gather_propagating(outcome) ==
    IF outcome = "raises"
    THEN [raised |-> TRUE, result |-> <<>>]
    ELSE [raised |-> FALSE,
          result |-> <<IF outcome = "none" THEN "None" ELSE "value">>]

\* asyncio.gather(job, return_exceptions=True): the one-element result list;
\* an exception of the job is an element of the list, not raised.
gather(outcome) ==
    [raised |-> FALSE,
     result |-> <<CASE outcome = "none" -> "None"
                    [] outcome = "value" -> "value"
                    [] outcome = "raises" -> "exception">>]

\* Schedule.run from the job's completion to its end (lines 113-126).
JobDone(s, outcome) ==
    /\ inflight[s] > 0
    /\ inflight' = [inflight EXCEPT ![s] = @ - 1]
    /\ LET g == gather(outcome)
       IN IF g.raised
          THEN /\ last_return' = [last_return EXCEPT ![s] = "raised"]
               /\ UNCHANGED running
          ELSE /\ last_return' =
                     [last_return EXCEPT
                        ![s] = IF g.result # <<>> /\ g.result[1] # "None"
                               THEN "failed" ELSE "succeeded"]
               /\ running' = [running EXCEPT ![s] = FALSE]
    /\ UNCHANGED <<clock, elapsed, last_execution, stop_signal_received,
                   pending, created, job_calls, wheelVars, killVars, hfin>>

\* ------------------------------------------------------------------------
\* Schedule.finish
\* ------------------------------------------------------------------------

finish_returns_at_once(s) == TRUE

\* `while self.running` (line 137) is left.
finish_loop_exits(s) == ~running[s]

\* The host calls schedule.finish() (test_finish_scheduler): lines 134-137.
HostFinishEnter(s) ==
    /\ hfin[s] = "none"
    /\ stop_signal_received' = [stop_signal_received EXCEPT ![s] = TRUE]
    /\ hfin' = [hfin EXCEPT ![s] = IF finish_loop_exits(s)
                                    THEN "returned" ELSE "sleeping"]
    /\ UNCHANGED <<clock, elapsed, running, last_execution, pending, inflight,
                   created, job_calls, last_return, wheelVars, killVars>>

\* finish wakes from asyncio.sleep(0.5) and finds running false.
HostFinishWake(s) ==
    /\ hfin[s] = "sleeping"
    /\ finish_loop_exits(s)
    /\ hfin' = [hfin EXCEPT ![s] = "returned"]
    /\ UNCHANGED <<clock, elapsed, schedVars, wheelVars, killVars>>

\* ------------------------------------------------------------------------
\* TimeWheel.kill_jobs
\* ------------------------------------------------------------------------

\* A termination signal: the handler makes a task of the kill_jobs coroutine
\* made in __init__; the coroutine object exists once, so it runs once.
Signal ==
    /\ kill_pc = "none"
    /\ kill_pc' = "started"
    /\ kill_idx' = 1
    /\ UNCHANGED <<clock, elapsed, schedVars, wheelVars, hfin>>

\* kill_jobs after finish() of Schedules[kill_idx] has returned: the next
\* iteration of the for loop, or line 59 after the last one.
kill_after_finish ==
    IF kill_idx < Len(Schedules)
    THEN /\ kill_idx' = kill_idx + 1
         /\ kill_pc' = "started"
         /\ UNCHANGED tw_running
    ELSE /\ tw_running' = FALSE
         /\ kill_pc' = "returned"
         /\ UNCHANGED kill_idx

\* kill_jobs calls Schedules[kill_idx].finish(): lines 134-137 of finish.
KillFinishEnter ==
    /\ kill_pc = "started"
    /\ LET s == Schedules[kill_idx]
       IN /\ stop_signal_received' = [stop_signal_received EXCEPT ![s] = TRUE]
          /\ IF finish_loop_exits(s)
             THEN kill_after_finish
             ELSE /\ kill_pc' = "sleeping"
                  /\ UNCHANGED <<kill_idx, tw_running>>
    /\ UNCHANGED <<clock, elapsed, running, last_execution, pending, inflight,
                   created, job_calls, last_return, wheel_pc, timer, hfin>>

\* The finish awaited by kill_jobs wakes from its sleep and finds running false.
KillFinishWake ==
    /\ kill_pc = "sleeping"
    /\ finish_loop_exits(Schedules[kill_idx])
    /\ kill_after_finish
    /\ UNCHANGED <<clock, elapsed, schedVars, wheel_pc, timer, hfin>>

\* ------------------------------------------------------------------------
\* TimeWheel.run
\* ------------------------------------------------------------------------

\* A period read from the environment: the configured check interval when it
\* is a positive integer, 10 seconds when nothing is configured.
configured_period ==
    IF configured_interval # <<>> /\ configured_interval[1] > 0
    THEN configured_interval[1]
    ELSE 10

\* wheel.py:38, the period of the evaluation pass in seconds of sleeping
CHECK_PERIOD == 60

\* `schedule.run(now)` binds its arguments to run's parameters.
DispatchBinds == DispatchArgs = RunPositionalParams

\* `while self.running` is false: the loop ends and line 46 logs.
WheelExit(t) ==
    /\ ~tw_running
    /\ wheel_pc' = "finished"
    /\ timer' = t
    /\ UNCHANGED pending

\* The schedules the pass dispatches (line 42).
pass_dispatched == {s \in S : ~running[s]}

\* An evaluation pass (lines 38-44): every schedule that is not running is
\* dispatched with schedule.run(now); the call raises TypeError when the
\* arguments do not bind, which ends TimeWheel.run.
WheelPass(t) ==
    /\ tw_running
    /\ t % CHECK_PERIOD = 0
    /\ timer' = 0
    /\ IF pass_dispatched = {}
       THEN /\ wheel_pc' = "sleeping"
            /\ UNCHANGED pending
       ELSE IF DispatchBinds
            THEN /\ wheel_pc' = "sleeping"
                 /\ pending' = [s \in S |-> IF s \in pass_dispatched
                                            THEN pending[s] + 1
                                            ELSE pending[s]]
            ELSE /\ wheel_pc' = "raised"
                 /\ UNCHANGED pending

\* An iteration that makes no pass (line 38 is false).
WheelNoPass(t) ==
    /\ tw_running
    /\ t % CHECK_PERIOD # 0
    /\ wheel_pc' = "sleeping"
    /\ timer' = t
    /\ UNCHANGED pending

\* One iteration of the loop, from its test (line 36) to the sleep (line 44)
\* or to the end of run, with the timer at t.
WheelIteration(t) ==
    /\ \/ WheelExit(t)
       \/ WheelPass(t)
       \/ WheelNoPass(t)
    /\ UNCHANGED <<clock, elapsed, running, last_execution,
                   stop_signal_received, inflight, created, job_calls,
                   last_return, tw_running, killVars, hfin>>

\* A start of TimeWheel.run that sleeps before its first test of the timer.
WheelStart_sleep_first ==
    /\ wheel_pc = "new"
    /\ wheel_pc' = "sleeping"
    /\ timer' = 0
    /\ UNCHANGED <<clock, elapsed, schedVars, tw_running, killVars, hfin>>

\* The host starts TimeWheel.run: timer = 0 (line 35) and the first iteration.
WheelStart ==
    /\ wheel_pc = "new"
    /\ WheelIteration(0)

\* Sleeps left before the timer is a multiple of CHECK_PERIOD again.
SleepsToPass == (CHECK_PERIOD - (timer % CHECK_PERIOD)) \div SLEEP_TIME

\* Sleeps one WheelWake step covers: all of them but the last end in an
\* iteration that makes no pass and changes nothing but the timer.
SleepsCovered ==
    IF ~tw_running THEN 1
    ELSE IF SleepsToPass < SleepsPerStep THEN SleepsToPass ELSE SleepsPerStep

\* asyncio.sleep(SLEEP_TIME) ends; timer += SLEEP_TIME (lines 44-45); the next
\* iteration follows.
WheelWake ==
    /\ wheel_pc = "sleeping"
    /\ WheelIteration(timer + SleepsCovered * SLEEP_TIME)

\* The host clears the flag itself (test_timewheel_runner, line 31).
HostStopWheel ==
    /\ tw_running
    /\ tw_running' = FALSE
    /\ UNCHANGED <<clock, elapsed, schedVars, wheel_pc, timer, killVars, hfin>>

\* ------------------------------------------------------------------------
\* Time
\* ------------------------------------------------------------------------

Tick ==
    /\ elapsed < MaxTicks
    /\ elapsed' = elapsed + 1
    /\ clock' = clock + TickSeconds
    /\ UNCHANGED <<schedVars, wheelVars, killVars, hfin>>

\* ------------------------------------------------------------------------
\* Specification
\* ------------------------------------------------------------------------

\* Schedule.__init__ (lines 71-73) and TimeWheel.__init__ (line 20).
EngineInit ==
    /\ clock \in StartClocks
    /\ elapsed = 0
    /\ running = [s \in S |-> FALSE]
    /\ last_execution = [s \in S |-> None]
    /\ stop_signal_received = [s \in S |-> FALSE]
    /\ pending = [s \in S |-> 0]
    /\ inflight = [s \in S |-> 0]
    /\ created = 0
    /\ job_calls = [s \in S |-> <<>>]
    /\ last_return = [s \in S |-> "never"]
    /\ tw_running = TRUE
    /\ wheel_pc = "new"
    /\ timer = 0
    /\ kill_pc = "none"
    /\ kill_idx = 0
    /\ hfin = [s \in S |-> "none"]

\* No TimeWheel.run history is kept and the environment configures nothing.
NoWheelLog ==
    /\ sleeps = 0
    /\ passes = <<>>
    /\ configured_interval = <<>>

\* No create_schedules or should_run call is under way.
NoCalls ==
    /\ expression = <<>>
    /\ compiled = <<>>
    /\ table_in = <<>>
    /\ time_in = 0
    /\ matched = <<>>

Init == EngineInit /\ NoWheelLog /\ NoCalls

\* The engine's steps leave the history and the two calls alone.
Frozen == UNCHANGED <<wheelLog, callVars>>

Next ==
    \/ \E s \in S : HostCallRun(s) /\ Frozen
    \/ \E s \in S : RunEnter(s) /\ Frozen
    \/ \E s \in S : \E o \in JobOutcomes : JobDone(s, o) /\ Frozen
    \/ \E s \in S : HostFinishEnter(s) /\ Frozen
    \/ \E s \in S : HostFinishWake(s) /\ Frozen
    \/ Signal /\ Frozen
    \/ KillFinishEnter /\ Frozen
    \/ KillFinishWake /\ Frozen
    \/ WheelStart /\ Frozen
    \/ WheelWake /\ Frozen
    \/ HostStopWheel /\ Frozen
    \/ Tick /\ Frozen

Spec == Init /\ [][Next]_vars

\* ------------------------------------------------------------------------
\* TimeWheel.run, one asyncio.sleep at a time
\* ------------------------------------------------------------------------

\* What the environment may configure as check interval: nothing, 0 or 10.
CheckIntervalChoices == {<<>>, <<0>>, <<10>>}

WheelInit ==
    /\ EngineInit
    /\ sleeps = 0
    /\ passes = <<>>
    /\ configured_interval \in CheckIntervalChoices
    /\ NoCalls

\* The iteration this step ends with made an evaluation pass: it reset the
\* timer (line 39) and did not leave the loop.
PassMade == wheel_pc' # "finished" /\ timer' = 0

LogPass == passes' = IF PassMade THEN Append(passes, sleeps') ELSE passes

\* A start of TimeWheel.run that sleeps first: no iteration, hence no pass.
LoggedStart_sleep_first ==
    /\ WheelStart_sleep_first
    /\ UNCHANGED <<wheelLog, callVars>>

\* TimeWheel.run is started; no sleep has been made.
LoggedStart ==
    /\ WheelStart
    /\ sleeps' = sleeps
    /\ LogPass
    /\ UNCHANGED <<configured_interval, callVars>>

\* One asyncio.sleep(SLEEP_TIME) ends (line 44), timer += SLEEP_TIME (line
\* 45), and the next iteration follows.
LoggedWake ==
    /\ wheel_pc = "sleeping"
    /\ sleeps < MaxSleeps
    /\ WheelIteration(timer + SLEEP_TIME)
    /\ sleeps' = sleeps + 1
    /\ LogPass
    /\ UNCHANGED <<configured_interval, callVars>>

WheelNext ==
    \/ \E s \in S : HostCallRun(s) /\ Frozen
    \/ \E s \in S : RunEnter(s) /\ Frozen
    \/ \E s \in S : \E o \in JobOutcomes : JobDone(s, o) /\ Frozen
    \/ LoggedStart
    \/ LoggedWake
    \/ HostStopWheel /\ Frozen
    \/ Tick /\ Frozen

SpecWheel == WheelInit /\ [][WheelNext]_vars

\* ------------------------------------------------------------------------
\* create_schedules: the text of an expression
\* ------------------------------------------------------------------------

\* A string is the list of its characters.
EXPRESSION_SEPARATOR == " "

ALL_TOKEN == "*"

NTH_TOKEN == "/"

MULTI_TOKEN == ","

Digits == <<"0", "1", "2", "3", "4", "5", "6", "7", "8", "9">>

\* \d
IsDigit(c) == \E d \in 1..10 : Digits[d] = c

DigitValue(c) == (CHOOSE d \in 1..10 : Digits[d] = c) - 1

\* [\d*]
IsClassChar(c) == IsDigit(c) \/ c = ALL_TOKEN

\* Repetitions of the outer group of EXPRESSION_VALIDATOR_REGEXP: {5}
PatternGroups == 5

\* Positions after a match of [\d*]+|[\d*]/\d that begins at position i.
AtomEnds(e, i) ==
    {j \in (i + 1)..(Len(e) + 1) : \A k \in i..(j - 1) : IsClassChar(e[k])}
    \cup {j \in {i + 3} : /\ j <= Len(e) + 1
                         /\ IsClassChar(e[i])
                         /\ e[i + 1] = NTH_TOKEN
                         /\ IsDigit(e[i + 2])}

\* The positions of ends after which the character c may be consumed too: c?
Optional(e, ends, c) ==
    ends \cup {j + 1 : j \in {k \in ends : k <= Len(e) /\ e[k] = c}}

\* ([\d*]+|[\d*]/\d),?
ItemEnds(e, i) == Optional(e, AtomEnds(e, i), MULTI_TOKEN)

\* (([\d*]+|[\d*]/\d),?)+
RECURSIVE ItemsEnds(_, _)
ItemsEnds(e, i) ==
    LET first == ItemEnds(e, i)
    IN  first \cup UNION {ItemsEnds(e, j) : j \in first}

\* (([\d*]+|[\d*]/\d),?)+ ?
GroupEnds(e, i) == Optional(e, ItemsEnds(e, i), EXPRESSION_SEPARATOR)

RECURSIVE RepeatEnds(_, _, _)
RepeatEnds(e, from, n) ==
    IF n = 0
    THEN from
    ELSE RepeatEnds(e, UNION {GroupEnds(e, i) : i \in from}, n - 1)

\* re.fullmatch(EXPRESSION_VALIDATOR_REGEXP, e)
fullmatch(e) == (Len(e) + 1) \in RepeatEnds(e, {1}, PatternGroups)

\* str.split(sep): the pieces between the separators, empty ones included.
RECURSIVE split(_, _)
split(e, sep) ==
    IF \A k \in 1..Len(e) : e[k] # sep
    THEN <<e>>
    ELSE LET k == CHOOSE k \in 1..Len(e) :
                      e[k] = sep /\ \A m \in 1..(k - 1) : e[m] # sep
         IN  <<SubSeq(e, 1, k - 1)>> \o split(SubSeq(e, k + 1, Len(e)), sep)

\* Whether int(text) returns. The texts reaching int() hold digits and '*'
\* only: the pattern admits no other character but ' ', ',' and '/', and
\* these are split away before.
IsIntLiteral(text) == Len(text) > 0 /\ \A k \in 1..Len(text) : IsDigit(text[k])

RECURSIVE int(_)
int(text) ==
    IF text = <<>>
    THEN 0
    ELSE int(SubSeq(text, 1, Len(text) - 1)) * 10 + DigitValue(text[Len(text)])

\* sorted(l): ascending, equal values kept.
RECURSIVE sorted(_)
sorted(l) ==
    IF l = <<>>
    THEN <<>>
    ELSE LET m == CHOOSE k \in 1..Len(l) : \A j \in 1..Len(l) : l[k] <= l[j]
         IN  <<l[m]>> \o sorted(SubSeq(l, 1, m - 1) \o SubSeq(l, m + 1, Len(l)))

\* ------------------------------------------------------------------------
\* create_schedules: results and errors
\* ------------------------------------------------------------------------

\* The value of a compiled field: True, or a list of integers.
AnyField == [any |-> TRUE, list |-> <<>>]

ListField(l) == [any |-> FALSE, list |-> l]

\* An error message: its form and the values formatted into it.
Message(form, text, value, max, details) ==
    [form |-> form, text |-> text, value |-> value, max |-> max,
     details |-> details]

NoMessage == Message("", <<>>, 0, 0, <<>>)

\* "The expression must match the pattern '<pattern>'"
PatternMessage == Message("pattern", <<>>, 0, 0, <<>>)

\* "Invalid syntax for the token <token>"
SyntaxMessage(token) == Message("syntax", token, 0, 0, <<>>)

\* "The token value <v> is higher then the max value (<max>) for the field
\* type."
TokenValueMessage(v, max) == Message("token_value", <<>>, v, max, <<>>)

\* "The nth token value <nth> is higher then the max value (<max>) for the
\* field type."
NthValueMessage(nth, max) == Message("nth_value", <<>>, nth, max, <<>>)

\* int(): "invalid literal for int() with base 10: '<text>'"
IntLiteralMessage(text) == Message("int_literal", text, 0, 0, <<>>)

\* "The expression <expression> contains an invalid token. Details: <detail>"
InvalidTokenMessage(expr, detail) ==
    Message("invalid_token", expr, 0, 0, <<detail>>)

\* "list index out of range"
IndexMessage == Message("index", <<>>, 0, 0, <<>>)

\* "integer modulo by zero"
ModuloMessage == Message("modulo_by_zero", <<>>, 0, 0, <<>>)

\* How a call ends: it returns a value or raises an exception.
Returned(v) == [exc |-> "none", message |-> NoMessage, value |-> v]

Raised(exc, message) == [exc |-> exc, message |-> message, value |-> <<>>]

\* range(start_value, max_value + 1)
Range(start_value, max_value) ==
    [k \in 1..(max_value + 1 - start_value) |-> start_value + k - 1]

\* ------------------------------------------------------------------------
\* create_schedules
\* ------------------------------------------------------------------------

parse_nth_token(nth_token, start_value, max_value) ==
    LET text == split(nth_token, NTH_TOKEN)[2]
    IN  IF ~IsIntLiteral(text)
        THEN Raised("ValueError", IntLiteralMessage(text))
        ELSE LET nth == int(text)
                 Selected(v) == v % nth = 0
             IN  IF nth > max_value
                 THEN Raised("ValueError", NthValueMessage(nth, max_value))
                 ELSE IF nth = 0 /\ start_value <= max_value
                      THEN Raised("ZeroDivisionError", ModuloMessage)
                      ELSE Returned(SelectSeq(Range(start_value, max_value),
                                              Selected))

\* The loop of parse_expression_token over the tokens not yet converted.
RECURSIVE parse_tokens(_, _, _, _)
parse_tokens(extracted_tokens, generated_tokens, start_value, max_value) ==
    IF extracted_tokens = <<>>
    THEN Returned(ListField(sorted(generated_tokens)))
    ELSE LET extracted_token == Head(extracted_tokens)
             nth == parse_nth_token(extracted_token, start_value, max_value)
         IN  IF extracted_token = <<ALL_TOKEN>>
             THEN Returned(AnyField)
             ELSE IF \E k \in 1..Len(extracted_token) :
                         extracted_token[k] = NTH_TOKEN
             THEN IF nth.exc # "none"
                  THEN nth
                  ELSE parse_tokens(Tail(extracted_tokens),
                                    generated_tokens \o nth.value,
                                    start_value, max_value)
             ELSE IF ~IsIntLiteral(extracted_token)
             THEN Raised("ValueError", IntLiteralMessage(extracted_token))
             ELSE IF int(extracted_token) > max_value
             THEN Raised("ValueError",
                         TokenValueMessage(int(extracted_token), max_value))
             ELSE parse_tokens(Tail(extracted_tokens),
                               Append(generated_tokens, int(extracted_token)),
                               start_value, max_value)

\* parse_expression_token without the test of line 189.
parse_expression_token_unchecked(token, start_value, max_value) ==
    parse_tokens(split(token, MULTI_TOKEN), <<>>, start_value, max_value)

parse_expression_token(token, start_value, max_value) ==
    LET extracted_tokens == split(token, MULTI_TOKEN)
    IN  IF /\ Len(extracted_tokens) > 1
           /\ \E k \in 1..Len(extracted_tokens) :
                  extracted_tokens[k] = <<ALL_TOKEN>>
        THEN Raised("ValueError", SyntaxMessage(token))
        ELSE parse_tokens(extracted_tokens, <<>>, start_value, max_value)

\* The start_value and max_value create_schedules passes for each field.
FieldStart == <<0, 0, 1, 1, 0>>

FieldMax == <<59, 23, 31, 12, 6>>

\* The keyword arguments of ScheduleTable(...), evaluated in order; done
\* holds the values of the fields compiled so far.
RECURSIVE compile_fields(_, _, _)
compile_fields(expr, tokens, done) ==
    LET i == Len(done) + 1
        field == parse_expression_token(tokens[i], FieldStart[i], FieldMax[i])
    IN  IF Len(done) = Len(FieldMax)
        THEN Returned(done)
        ELSE IF i > Len(tokens)
        THEN Raised("IndexError", IndexMessage)
        ELSE IF field.exc = "ValueError"
        THEN Raised("ValueError", InvalidTokenMessage(expr, field.message))
        ELSE IF field.exc # "none"
        THEN field
        ELSE compile_fields(expr, tokens, Append(done, field.value))

create_schedules(expr) ==
    IF ~fullmatch(expr)
    THEN Raised("ValueError", PatternMessage)
    ELSE compile_fields(expr, split(expr, EXPRESSION_SEPARATOR), <<>>)

\* ------------------------------------------------------------------------
\* A call of create_schedules
\* ------------------------------------------------------------------------

\* str(n)
RECURSIVE Decimal(_)
Decimal(n) ==
    IF n < 10
    THEN <<Digits[n + 1]>>
    ELSE Decimal(n \div 10) \o <<Digits[(n % 10) + 1]>>

Star == <<ALL_TOKEN>>

\* The text '*/n'.
Step(n) == <<ALL_TOKEN, NTH_TOKEN>> \o Decimal(n)

\* Tokens the fields of the generated expressions are made of.
TokenTexts ==
    {Star, Decimal(0), Decimal(1), Decimal(60), Step(0), Step(2), Step(60)}

\* pieces joined by sep: sep.join(pieces)
RECURSIVE Join(_, _)
Join(pieces, sep) ==
    IF Len(pieces) = 1
    THEN pieces[1]
    ELSE pieces[1] \o <<sep>> \o Join(Tail(pieces), sep)

\* Fields of one to MaxTokens comma-separated tokens.
FieldTexts ==
    UNION {{Join(ts, MULTI_TOKEN) : ts \in [1..n -> TokenTexts]} :
           n \in 1..MaxTokens}

\* What the first field holds when it is not the field under test.
FirstFieldTexts == {Star, Decimal(60), Step(0)}

\* The expression of n fields whose first field is first, whose field p is
\* text and whose other fields are '*', with or without a trailing space.
MakeExpression(n, first, p, text, trailing) ==
    Join([i \in 1..n |-> IF i = p THEN text
                         ELSE IF i = 1 THEN first ELSE Star],
         EXPRESSION_SEPARATOR)
    \o (IF trailing THEN <<EXPRESSION_SEPARATOR>> ELSE <<>>)

Expressions ==
    {MakeExpression(n, first, p, text, trailing) :
        n \in 1..MaxFieldCount, first \in FirstFieldTexts,
        p \in 1..MaxFieldCount, text \in FieldTexts, trailing \in BOOLEAN}

CompileInit ==
    /\ EngineInit
    /\ clock = FirstStartClock
    /\ NoWheelLog
    /\ expression \in Expressions
    /\ compiled = <<>>
    /\ table_in = <<>>
    /\ time_in = 0
    /\ matched = <<>>

\* create_schedules(expression)
CallCreateSchedules ==
    /\ compiled = <<>>
    /\ compiled' = <<create_schedules(expression)>>
    /\ UNCHANGED <<clock, elapsed, schedVars, wheelVars, killVars, hfin,
                   wheelLog, expression, table_in, time_in, matched>>

CompileNext == CallCreateSchedules

SpecCompile == CompileInit /\ [][CompileNext]_vars

\* ------------------------------------------------------------------------
\* A call of ScheduleTable.should_run
\* ------------------------------------------------------------------------

\* Distance of two sample instants: 32 days, 5 hours and 7 minutes, so that
\* every component of the instant changes from one sample to the next.
SampleStride == 32 * 86400 + 5 * 3600 + 7 * 60

\* Instants of 2024 given to should_run, seconds since 2024-01-01 00:00.
SampleTimes == {k * SampleStride : k \in 0..MaxSamples}

\* The five components should_run reads of an instant, in field order.
Components(t) == <<Minute(t), Hour(t), Day(t), Month(t), Weekday(t)>>

\* A field is the wildcard or a list holding one value taken from one of the
\* first three samples.
FieldChoices(i) ==
    {AnyValue} \cup {List({Components(k * SampleStride)[i]}) : k \in 0..2}

SampleTables ==
    [minutes : FieldChoices(1), hours : FieldChoices(2),
     days : FieldChoices(3), months : FieldChoices(4),
     weekdays : FieldChoices(5)]

MatchInit ==
    /\ EngineInit
    /\ clock = FirstStartClock
    /\ NoWheelLog
    /\ expression = <<>>
    /\ compiled = <<>>
    /\ table_in \in SampleTables
    /\ time_in \in SampleTimes
    /\ matched = <<>>

\* table_in.should_run(time_in)
CallShouldRun ==
    /\ matched = <<>>
    /\ matched' = <<should_run(table_in, time_in)>>
    /\ UNCHANGED <<clock, elapsed, schedVars, wheelVars, killVars, hfin,
                   wheelLog, expression, compiled, table_in, time_in>>

MatchNext == CallShouldRun

SpecMatch == MatchInit /\ [][MatchNext]_vars

\* ------------------------------------------------------------------------
\* Properties
\* ------------------------------------------------------------------------

\* C1: at most one invocation of a schedule's job is in flight at any time.
C1_AtMostOneInFlight == \A s \in S : inflight[s] <= 1

\* C2: once finish has set stop_signal_received it stays set, and no step
\* starts the schedule's job again.
C2_DrainedNeverFires ==
    [][\A s \in S :
         stop_signal_received[s] =>
             /\ stop_signal_received'[s]
             /\ job_calls'[s] = job_calls[s]
             /\ inflight'[s] <= inflight[s]]_vars

\* A Schedule.run ended at its stop check at a time when it would otherwise
\* have fired.
C2_Witness ==
    \E s \in S :
        /\ stop_signal_received[s]
        /\ last_return[s] = "stopped"
        /\ should_run(schedule_table(s), current_time(s))
        /\ Date(current_time(s)) \notin excluded_dates(s)
        /\ last_execution[s] # <<current_time(s)>>

\* C3: the job is called at most once in a clock minute, and after a call
\* last_execution is the minute of the latest call.
C3_OncePerMinute ==
    \A s \in S :
        /\ \A i, j \in 1..Len(job_calls[s]) :
               i < j => TruncateToMinute(job_calls[s][i])
                            # TruncateToMinute(job_calls[s][j])
        /\ job_calls[s] # <<>> =>
               last_execution[s] = <<job_calls[s][Len(job_calls[s])]>>

\* A Schedule.run found the minute already executed while another
\* invocation of that minute is still waiting to start.
C3_Witness ==
    \E s \in S :
        /\ last_return[s] = "same_minute"
        /\ Len(job_calls[s]) = 1
        /\ pending[s] > 0
        /\ last_execution[s] = <<current_time(s)>>

\* A step in which a call of finish on s returns.
FinishReturns(s) ==
    \/ hfin[s] # "returned" /\ hfin'[s] = "returned"
    \/ /\ kill_pc \in {"started", "sleeping"}
       /\ Schedules[kill_idx] = s
       /\ kill_idx' > kill_idx \/ kill_pc' = "returned"

C5_ShutdownComplete ==
    kill_pc = "returned" =>
        /\ ~tw_running
        /\ \A s \in S :
               /\ stop_signal_received[s]
               /\ ~running[s]
               /\ inflight[s] = 0

\* C6: kill_jobs has cleared TimeWheel.running by the time it has called
\* finish on the first schedule.
C6_RunningClearedBeforeDrain ==
    (kill_pc = "sleeping" \/ (kill_pc = "started" /\ kill_idx > 1)) =>
        ~tw_running

\* C7: when a job ends, whatever its outcome, Schedule.run ends normally and
\* running is false.
C7_JobEndResetsRunning ==
    [][\A s \in S :
         inflight'[s] < inflight[s] =>
             /\ ~running'[s]
             /\ last_return'[s] \in {"succeeded", "failed"}]_vars

\* A schedule whose job failed has fired again in a later minute.
C7_Witness ==
    \E s \in S :
        /\ last_return[s] = "failed"
        /\ Len(job_calls[s]) = 2
        /\ inflight[s] = 1
        /\ running[s]

\* C8: while a job is in flight and the wheel's flag is true, TimeWheel.run
\* has not ended: it goes on ticking and dispatching the other schedules.
C8_DriverKeepsTicking ==
    (tw_running /\ \E s \in S : inflight[s] > 0) =>
        wheel_pc \in {"new", "sleeping"}

\* C9: the evaluation pass TimeWheel.run makes when it starts hands every
\* schedule that is not running to Schedule.run.
C9_PassDispatches ==
    [][(wheel_pc = "new" /\ wheel_pc' # "new" /\ tw_running) =>
           \A s \in S : ~running[s] => pending'[s] = pending[s] + 1]_vars

\* C10: a Schedule.run that starts on a schedule that is not stopped, at a
\* time the table matches and on an excluded date, calls no job and leaves
\* running and last_execution as they were.
C10_ExcludedDateNoOp ==
    [][\A s \in S :
         (/\ pending'[s] < pending[s]
          /\ ~stop_signal_received[s]
          /\ should_run(schedule_table(s), current_time(s))
          /\ Date(current_time(s)) \in excluded_dates(s)) =>
             /\ job_calls'[s] = job_calls[s]
             /\ inflight'[s] = inflight[s]
             /\ running'[s] = running[s]
             /\ last_execution'[s] = last_execution[s]
             /\ last_return'[s] = "excluded"]_vars

\* A Schedule.run ended at the exclusion check of a schedule that is idle.
C10_Witness ==
    \E s \in S :
        /\ last_return[s] = "excluded"
        /\ Date(current_time(s)) \in excluded_dates(s)
        /\ ~running[s]
        /\ last_execution[s] = None

\* C11: should_run returns true exactly when each of the five fields is the
\* wildcard or holds the matching component of the instant (minute, hour,
\* day of month, month, weekday); a table of five wildcards matches every
\* instant, and a single field that does not match makes the result false.
FieldsOf(table) ==
    <<table.minutes, table.hours, table.days, table.months, table.weekdays>>

Mismatches(table, t) ==
    {i \in 1..5 : ~FieldsOf(table)[i].any
                  /\ Components(t)[i] \notin FieldsOf(table)[i].vals}

Compiled == Len(compiled) = 1

Result == compiled[1]

\* The texts between the spaces of the expression.
Fields == split(expression, EXPRESSION_SEPARATOR)

\* Exactly five fields separated by single spaces.
FiveFields == Len(Fields) = 5 /\ \A i \in 1..5 : Fields[i] # <<>>

Domain(i) == FieldStart[i]..FieldMax[i]

\* The values of a set in ascending order.
RECURSIVE Ascending(_)
Ascending(set) ==
    IF set = {}
    THEN <<>>
    ELSE LET m == CHOOSE v \in set : \A w \in set : v <= w
         IN  <<m>> \o Ascending(set \ {m})

\* create_schedules failed with the wrapped message carrying detail.
FailedWith(detail) ==
    Result = Raised("ValueError", InvalidTokenMessage(expression, detail))

StepsTried == {0, 2, 60}

\* C12: for every field i with domain [a,b] and every n, the expression whose
\* field i is '*/n' and whose other fields are '*' compiles, when n <= b, to
\* a table whose field i is the ascending list of the v in [a,b] with
\* v mod n = 0, and fails with the nth-token error naming n and b when n > b.
C12_StepExpansion ==
    \A i \in 1..5 : \A n \in StepsTried :
        Compiled /\ expression = MakeExpression(5, Star, i, Step(n), FALSE) =>
            IF n <= FieldMax[i]
            THEN /\ Result.exc = "none"
                 /\ Result.value[i] =
                        ListField(Ascending({v \in Domain(i) : v % n = 0}))
            ELSE FailedWith(NthValueMessage(n, FieldMax[i]))

\* The field holds the bare '*' among two or more comma-separated tokens.
Mixed(field) ==
    LET tokens == split(field, MULTI_TOKEN)
    IN  Len(tokens) > 1 /\ \E k \in 1..Len(tokens) : tokens[k] = Star

\* Field j, taken alone, compiles.
FieldCompiles(j) ==
    parse_expression_token(Fields[j], FieldStart[j], FieldMax[j]).exc = "none"

StarIsAny ==
    Compiled /\ Result.exc = "none" =>
        \A i \in 1..5 : Fields[i] = Star => Result.value[i] = AnyField

\* C13 as stated: in an expression of five fields, a field in any position
\* that holds '*' among other comma-separated tokens makes create_schedules
\* fail with the invalid-syntax error naming that field; a field that is
\* exactly '*' compiles to Any.
C13_MixedWildcardIsSyntaxError ==
    /\ Compiled /\ FiveFields =>
           \A i \in 1..5 : Mixed(Fields[i]) =>
               FailedWith(SyntaxMessage(Fields[i]))
    /\ StarIsAny

\* C13 amended: the same, for a field no field before which fails to compile;
\* fields are compiled from left to right and the first failure is the one
\* create_schedules reports.
C13_FirstMixedWildcardIsSyntaxError ==
    /\ Compiled /\ FiveFields =>
           \A i \in 1..5 :
               Mixed(Fields[i]) /\ (\A j \in 1..(i - 1) : FieldCompiles(j)) =>
                   FailedWith(SyntaxMessage(Fields[i]))
    /\ StarIsAny

\* The last field mixes '*' with another token, the four before it compile,
\* and create_schedules failed naming the last field.
C13_Witness ==
    /\ Compiled /\ FiveFields
    /\ Mixed(Fields[5])
    /\ \A j \in 1..4 : FieldCompiles(j)
    /\ FailedWith(SyntaxMessage(Fields[5]))

\* C14: an expression that is not five fields separated by single spaces
\* fails with the shape error, and with no other failure.
C14_NotFiveFieldsIsShapeError ==
    Compiled /\ ~FiveFields => Result = Raised("ValueError", PatternMessage)

\* C15: every field compiled to a list is strictly ascending, hence without
\* duplicates.
C15_ListsStrictlyAscending ==
    Compiled /\ Result.exc = "none" =>
        \A i \in 1..5 : \A k \in 1..(Len(Result.value[i].list) - 1) :
            Result.value[i].list[k] < Result.value[i].list[k + 1]

\* C16: every field of a returned table is Any or a non-empty list of values
\* of the field's domain; a literal above the field's maximum is rejected
\* with the token-value error.
C16_FieldsWithinDomain ==
    /\ Compiled /\ Result.exc = "none" =>
           \A i \in 1..5 :
               \/ Result.value[i].any
               \/ /\ Result.value[i].list # <<>>
                  /\ \A k \in 1..Len(Result.value[i].list) :
                         Result.value[i].list[k] \in Domain(i)
    /\ \A i \in 1..5 :
           Compiled /\ expression = MakeExpression(5, Star, i, Decimal(60), FALSE)
               => FailedWith(TokenValueMessage(60, FieldMax[i]))

\* C17: an expression of five fields that passes the shape check and does not
\* compile fails with the ValueError whose message is "The expression <expr>
\* contains an invalid token. Details: <detail>", never with another error.
C17_FieldFailuresAreWrapped ==
    Compiled /\ FiveFields /\ fullmatch(expression) /\ Result.exc # "none" =>
        /\ Result.exc = "ValueError"
        /\ Result.message.form = "invalid_token"
        /\ Result.message.text = expression

\* ------------------------------------------------------------------------
\* Properties of TimeWheel.run's timer
\* ------------------------------------------------------------------------

C19_NoPassBeforeFirstPeriod ==
    \A i \in 1..Len(passes) : passes[i] = i * CHECK_PERIOD

\* C19 amended: the timer starts at 0 and every iteration tests the timer
\* before it sleeps, so the first iteration makes a pass before any sleep;
\* the timer is reset to 0 at each pass and counts the sleeps since, and pass
\* number i happens after exactly (i - 1) periods of sleeping.
C19_PassAtStartThenEveryPeriod ==
    /\ \A i \in 1..Len(passes) : passes[i] = (i - 1) * CHECK_PERIOD
    /\ wheel_pc \in {"sleeping", "raised"} =>
           /\ passes # <<>>
           /\ timer = (sleeps - passes[Len(passes)]) * SLEEP_TIME

\* TimeWheel.run made a pass at its start and a second one after 60 sleeps.
C19_Witness == passes = <<0, 60>> /\ sleeps = 60 /\ timer = 0

\* ------------------------------------------------------------------------
\* Properties of the shutdown
\* ------------------------------------------------------------------------

\* C20: once kill_jobs has been invoked it returns, TimeWheel.running becomes
\* false, and TimeWheel.run leaves its loop and emits the final log. A run
\* that has ended by an exception never emits it, so when kill_jobs has
\* returned a TimeWheel.run that was started is at its sleep, about to find
\* running false, or has left the loop and logged.
C20_ShutdownEndsTheLoop ==
    (kill_pc = "returned" /\ wheel_pc # "new") =>
        wheel_pc \in {"sleeping", "finished"}

\* ------------------------------------------------------------------------
\* Frame of Schedule.run
\* ------------------------------------------------------------------------

\* A Schedule.run of schedule s starts in this step.
RunStarts(s) == pending'[s] < pending[s]

\* One of the guard cases holds for schedule s: it is stopped, its table does
\* not match the current minute, or the current minute is last_execution.
GuardCase(s) ==
    \/ stop_signal_received[s]
    \/ ~should_run(schedule_table(s), current_time(s))
    \/ last_execution[s] = <<current_time(s)>>

\* C21: a Schedule.run that starts in a guard case (stopped, table not
\* matching, or minute equal to last_execution) invokes no job and leaves
\* running, last_execution and stop_signal_received as they were;
\* last_execution changes and running becomes true only in a Schedule.run
\* that fires, which sets last_execution to the current minute and running
\* to true and invokes the job.
C21_GuardCasesAreNoOps ==
    [][\A s \in S :
         /\ (RunStarts(s) /\ GuardCase(s)) =>
                /\ job_calls'[s] = job_calls[s]
                /\ inflight'[s] = inflight[s]
                /\ running'[s] = running[s]
                /\ last_execution'[s] = last_execution[s]
                /\ stop_signal_received'[s] = stop_signal_received[s]
         /\ (\/ last_execution'[s] # last_execution[s]
             \/ (running'[s] /\ ~running[s])) =>
                /\ RunStarts(s)
                /\ ~GuardCase(s)
                /\ last_execution'[s] = <<current_time(s)>>
                /\ running'[s]
                /\ job_calls'[s] = Append(job_calls[s], current_time(s))
                /\ inflight'[s] = inflight[s] + 1]_vars

\* Schedule 1 has fired and a second Schedule.run of the same minute has
\* returned at the last_execution test; a Schedule.run of schedule 2 has
\* returned because its table does not match; neither changed anything.
C21_Witness ==
    /\ last_return[1] = "same_minute"
    /\ Len(job_calls[1]) = 1
    /\ last_execution[1] = <<current_time(1)>>
    /\ last_return[2] = "no_match"
    /\ last_execution[2] = None
    /\ ~running[2]
    /\ job_calls[2] = <<>>

====
